---- MODULE Spec2Model ----
(***************************************************************************)
(* Model of the two combinators of futures-concurrency:                    *)
(*   - the tuple RaceOk future  (src/src/future/race_ok/tuple/mod.rs)      *)
(*   - the Vec Merge stream     (src/src/stream/merge/vec.rs)              *)
(* RaceSpec drives one RaceOk future, MergeSpec drives one Merge stream     *)
(* with one parent waker, MergeSpecTwoWakers lets the runtime change it,   *)
(* MergeFairSpec adds that a poll_next call in progress keeps running.      *)
(***************************************************************************)
EXTENDS Integers, Sequences, FiniteSets, Bags

\* ------------------------------------------------------------------------
\* Bounds of the model
\* ------------------------------------------------------------------------
\* largest tuple arity explored (the source generates arities 1..12)
MaxLen == 3
\* largest number of merged streams explored
MaxStreams == 2
\* largest number of items one merged stream yields
MaxItems == 1
\* the completed counters are followed up to these values
MaxCompleted == 4
MaxComplete == 3

VARIABLES
    \* ---- RaceOk future ----
    LEN,        \* const LEN: the tuple's arity
    fate,       \* what each future resolves to: "ok", "err" or "never"
    opState,    \* "live", "failed" or "succeeded", per future
    completed,  \* this.completed
    done,       \* this.done
    indexer,    \* this.indexer: the start of the next rotation
    errors,     \* this.errors, Uninit where nothing was written
    ret,        \* what the last poll returned
    returned,   \* every terminal result poll has returned so far, in order
    driven,     \* the indices the last poll drove, in order
    redriven,   \* futures that were polled after their completion
    \* ---- Merge stream ----
    streams,    \* this.streams: the items each stream still has to yield
    orig,       \* the items each stream was created with
    fused,      \* Fuse's flag: the stream has returned None
    count,      \* readiness.count
    ready,      \* readiness.ready
    guard,      \* who holds the readiness mutex: "free" or "loop"
    complete,   \* this.complete
    index,      \* poll_next's local index
    parent,     \* cx.waker() of the poll_next call in progress (or the last)
    pc,         \* where poll_next is: "idle", "scan" or "polling"
    relays,     \* the StreamWakers created so far: [id, parent]
    lastRelay,  \* per stream, the parent of the StreamWaker of its last poll
    woken,      \* parents woken since the last return of poll_next
    output,     \* the items poll_next has returned, in order
    mret,       \* what poll_next returned (none while a call is in progress)
    ends,       \* how many times poll_next has returned Ready(None)
    wakers,     \* the wakers the runtime passes to poll_next
    due         \* streams whose last StreamWaker was invoked after poll_next returned
                \* Pending and whose next poll has not returned since

raceVars == <<LEN, fate, opState, completed, done, indexer, errors, ret,
              returned, driven, redriven>>
mergeVars == <<streams, orig, fused, count, ready, guard, complete, index, parent,
               pc, relays, lastRelay, woken, output, mret, ends, wakers, due>>
vars == <<raceVars, mergeVars>>

\* ========================================================================
\* RaceOk (tuple)
\* ========================================================================

\* MaybeUninit::uninit(): a slot nothing has been written to
Uninit == 0
\* the value future i resolves to when it succeeds / fails
OkVal(i) == 100 + i
ErrVal(i) == 200 + i
\* what reading an uninitialised slot may give (undefined behaviour): the
\* slot as it was left, or whatever value the memory holds
UninitReads == {Uninit, ErrVal(0)}

Idx(n) == 0 .. n - 1

\* utils::Indexer::iter: every index once, rotating the start by one per call
IndexerIter(off, n) == [k \in 1 .. n |-> (off + k - 1) % n]
IndexerNext(off, n) == (off + 1) % n

NoRet == [kind |-> "none", val |-> 0, errs |-> <<>>]

\* A faulty Ok arm: the success is counted and the scan goes on.
ArmOkKeepsScanning(st, i) ==
    [st EXCEPT !.completed = @ + 1,
               !.opState[i] = "succeeded"]

\* A faulty Ok arm: the value is returned and done is left false.
ArmOkForgetsDone(st, i) ==
    [st EXCEPT !.completed = @ + 1,
               !.opState[i] = "succeeded",
               !.ret = [kind |-> "ok", val |-> OkVal(i), errs |-> <<>>]]

\* A faulty Ok arm: the slot of the future that succeeded is written too.
ArmOkWritesSlot(st, i) ==
    [st EXCEPT !.done = TRUE,
               !.completed = @ + 1,
               !.errors[i] = ErrVal(i),
               !.opState[i] = "succeeded",
               !.ret = [kind |-> "ok", val |-> OkVal(i), errs |-> <<>>]]

\* Ok(output) => { done = true; completed += 1; return Poll::Ready(Ok(output)) }
ArmOk(st, i) ==
    [st EXCEPT !.done = TRUE,
               !.completed = @ + 1,
               !.opState[i] = "succeeded",
               !.ret = [kind |-> "ok", val |-> OkVal(i), errs |-> <<>>]]

\* Err(err) => { errors[i] = MaybeUninit::new(err); completed += 1; continue }
ArmErr(st, i) ==
    [st EXCEPT !.errors[i] = ErrVal(i),
               !.completed = @ + 1,
               !.opState[i] = "failed"]

\* One iteration of poll's for loop: future i is polled and its output matched.
\* rdy[i] says whether a future that has not completed is ready in this call.
\* A future that has completed and is polled again panics, stays pending or
\* reports its result again, whichever again says.
PollOne(st, i, rdy, again) ==
    LET st1 == [st EXCEPT !.driven = Append(@, i)] IN
    IF st.opState[i] = "live"
    THEN IF fate[i] = "never" \/ ~rdy[i] THEN st1
         ELSE IF fate[i] = "ok" THEN ArmOk(st1, i)
         ELSE ArmErr(st1, i)
    ELSE LET st2 == [st1 EXCEPT !.redriven = @ \cup {i}] IN
         IF again = "panic"
         THEN [st2 EXCEPT !.ret = [kind |-> "panic", val |-> 0, errs |-> <<>>]]
         ELSE IF again = "pending" THEN st2
         ELSE IF st.opState[i] = "succeeded" THEN ArmOk(st2, i)
         ELSE ArmErr(st2, i)

\* for i in this.indexer.iter() { ... }: stops at the first return (or panic)
RECURSIVE PollLoop(_, _, _, _)
PollLoop(st, order, rdy, again) ==
    IF order = <<>> \/ st.ret.kind # "none" THEN st
    ELSE PollLoop(PollOne(st, Head(order), rdy, again), Tail(order), rdy, again)

\* A faulty end of poll: the aggregate is returned and done is left false.
AfterLoopForgetsDone(st, res) ==
    IF st.ret.kind # "none" THEN st
    ELSE IF st.completed = LEN
    THEN [st EXCEPT !.errors = [i \in Idx(LEN) |-> Uninit],
                    !.ret = [kind |-> "err", val |-> 0, errs |-> res]]
    ELSE [st EXCEPT !.ret = [kind |-> "pending", val |-> 0, errs |-> <<>>]]

\* After the loop: all_completed => swap the slots out, assume them initialised,
\* set done and return the AggregateError; otherwise Poll::Pending.
\* res is what array_assume_init reads from the slots.
AfterLoop(st, res) ==
    IF st.ret.kind # "none" THEN st
    ELSE IF st.completed = LEN
    THEN [st EXCEPT !.done = TRUE,
                    !.errors = [i \in Idx(LEN) |-> Uninit],
                    !.ret = [kind |-> "err", val |-> 0, errs |-> res]]
    ELSE [st EXCEPT !.ret = [kind |-> "pending", val |-> 0, errs |-> <<>>]]

\* the values array_assume_init may produce from the slots e
AssumeInit(e) ==
    {[i \in Idx(LEN) |-> IF e[i] # Uninit THEN e[i] ELSE g[i]] :
        g \in [Idx(LEN) -> UninitReads]}

\* the futures that can become ready, and the ways a completed future may
\* answer another poll
CanBeReady == {i \in Idx(LEN) : opState[i] = "live" /\ fate[i] # "never"}
Again ==
    IF \E i \in Idx(LEN) : opState[i] # "live"
    THEN {"panic", "pending", "repeat"} ELSE {"panic"}

IsTerminal(r) == r.kind \in {"ok", "err"}

\* race_ok(): the state after construction
RaceInit ==
    /\ LEN \in 1 .. MaxLen
    /\ fate \in [Idx(LEN) -> {"ok", "err", "never"}]
    /\ opState = [i \in Idx(LEN) |-> "live"]
    /\ completed = 0
    /\ done = FALSE
    /\ indexer = 0
    /\ errors = [i \in Idx(LEN) |-> Uninit]
    /\ ret = NoRet
    /\ returned = <<>>
    /\ driven = <<>>
    /\ redriven = {}

\* poll() on a future that has already returned: the assertion fails
PollAfterDone ==
    /\ done
    /\ ret' = [kind |-> "panic", val |-> 0, errs |-> <<>>]
    /\ driven' = <<>>
    /\ UNCHANGED <<LEN, fate, opState, completed, done, indexer, errors,
                   returned, redriven>>

\* poll() on a future that has not returned yet
Poll ==
    /\ ~done
    /\ completed < MaxCompleted
    /\ \E rs \in SUBSET CanBeReady, again \in Again :
         LET rdy == [i \in Idx(LEN) |-> i \in rs]
             st0 == [completed |-> completed, done |-> done, errors |-> errors,
                     opState |-> opState, driven |-> <<>>, redriven |-> redriven,
                     ret |-> NoRet]
             st1 == PollLoop(st0, IndexerIter(indexer, LEN), rdy, again)
         IN \E res \in (IF st1.ret.kind = "none" /\ st1.completed = LEN
                        THEN AssumeInit(st1.errors) ELSE {<<>>}) :
              LET st2 == AfterLoop(st1, res) IN
              /\ completed' = st2.completed
              /\ done' = st2.done
              /\ errors' = st2.errors
              /\ opState' = st2.opState
              /\ driven' = st2.driven
              /\ redriven' = st2.redriven
              /\ ret' = st2.ret
              /\ returned' = IF IsTerminal(st2.ret)
                             THEN Append(returned, st2.ret) ELSE returned
    /\ indexer' = IndexerNext(indexer, LEN)
    /\ UNCHANGED <<LEN, fate>>

\* ========================================================================
\* Merge (Vec)
\* ========================================================================

\* the wakers a runtime may pass to poll_next: the task's waker, and another
\* one after the runtime changed it
Parents == {"w1", "w2"}
\* no StreamWaker yet
NoParent == "none"

\* this.streams.len()
StreamsLen == Cardinality(DOMAIN orig)

\* the k-th item of stream i
Item(i, k) == 10 * (i + 1) + k
ItemsOf(i, n) == [k \in 1 .. n |-> Item(i, k)]

\* A faulty set_ready: the flag is set and count is left as it was.
SetReadyKeepsCount(t, id) ==
    IF ~t.ready[id]
    THEN [count |-> t.count, ready |-> [t.ready EXCEPT ![id] = TRUE], old |-> FALSE]
    ELSE [count |-> t.count, ready |-> t.ready, old |-> TRUE]

\* Readiness::set_ready on the table t = [count, ready]; old is the flag before
SetReady(t, id) ==
    IF ~t.ready[id]
    THEN [count |-> t.count + 1, ready |-> [t.ready EXCEPT ![id] = TRUE], old |-> FALSE]
    ELSE [count |-> t.count, ready |-> t.ready, old |-> TRUE]

\* Readiness::clear_ready on the table t; old is the flag before
ClearReady(t, id) ==
    IF t.ready[id]
    THEN [count |-> t.count - 1, ready |-> [t.ready EXCEPT ![id] = FALSE], old |-> TRUE]
    ELSE [count |-> t.count, ready |-> t.ready, old |-> FALSE]

\* Readiness::any_ready
AnyReady(t) == t.count > 0

readiness == [count |-> count, ready |-> ready]

\* RandomGenerator::random(n): some index below n (0 when there is none)
Random(n) == IF n = 0 THEN {0} ELSE 0 .. n - 1

NoMret == [kind |-> "none"]

\* Fuse::poll_next polls its stream unless the stream has returned None before
FusePollsInner(i) == ~fused[i]

\* Merge::new
MergeInit ==
    /\ \E n \in 0 .. MaxStreams :
         /\ \E lens \in [Idx(n) -> 0 .. MaxItems] :
              orig = [i \in Idx(n) |-> ItemsOf(i, lens[i])]
         /\ fused = [i \in Idx(n) |-> FALSE]
         /\ count = n
         /\ ready = [i \in Idx(n) |-> TRUE]
         /\ lastRelay = [i \in Idx(n) |-> NoParent]
    /\ streams = orig
    /\ guard = "free"
    /\ complete = 0
    /\ index = 0
    /\ parent = "w1"
    /\ pc = "idle"
    /\ relays = {}
    /\ woken = {}
    /\ output = <<>>
    /\ mret = NoMret
    /\ ends = 0
    /\ due = {}

\* poll_next is entered with the parent waker p: the start index is drawn and
\* the readiness mutex taken
PollNextBegin(p) ==
    /\ pc = "idle"
    /\ guard = "free"
    /\ \E r \in Random(StreamsLen) : index' = r
    /\ guard' = "loop"
    /\ parent' = p
    /\ pc' = "scan"
    /\ mret' = NoMret
    /\ UNCHANGED <<streams, orig, fused, count, ready, complete, relays, lastRelay,
                   woken, output, ends, wakers, due>>

\* A faulty top of the loop: Pending is returned without looking at the table.
ReturnPendingUnchecked ==
    /\ pc = "scan"
    /\ pc' = "idle"
    /\ guard' = "free"
    /\ mret' = [kind |-> "pending"]
    /\ woken' = {}
    /\ UNCHANGED <<streams, orig, fused, count, ready, complete, index, parent,
                   relays, lastRelay, output, ends, wakers, due>>

\* top of the loop with nothing ready: return Poll::Pending
ReturnPending ==
    /\ pc = "scan"
    /\ ~AnyReady(readiness)
    /\ pc' = "idle"
    /\ guard' = "free"
    /\ mret' = [kind |-> "pending"]
    /\ woken' = {}
    /\ UNCHANGED <<streams, orig, fused, count, ready, complete, index, parent,
                   relays, lastRelay, output, ends, wakers, due>>

\* index advances to a stream whose flag is clear: continue
ScanSkip ==
    /\ pc = "scan"
    /\ AnyReady(readiness)
    /\ LET i == (index + 1) % StreamsLen IN
         /\ ~ClearReady(readiness, i).old
         /\ index' = i
    /\ UNCHANGED <<streams, orig, fused, count, ready, guard, complete, parent, pc,
                   relays, lastRelay, woken, output, mret, ends, wakers, due>>

\* A faulty scan step: the stream is polled with the readiness mutex still held.
ScanTakeKeepsGuard ==
    /\ pc = "scan"
    /\ AnyReady(readiness)
    /\ LET i == (index + 1) % StreamsLen
           t == ClearReady(readiness, i) IN
         /\ t.old
         /\ index' = i
         /\ count' = t.count
         /\ ready' = t.ready
         /\ lastRelay' = [lastRelay EXCEPT ![i] = parent]
         /\ relays' = IF FusePollsInner(i)
                       THEN relays \cup {[id |-> i, parent |-> parent]}
                       ELSE relays
    /\ pc' = "polling"
    /\ UNCHANGED <<streams, orig, fused, guard, complete, parent, woken, output, mret,
                   ends, wakers, due>>

\* index advances to a stream whose flag is set: the flag is cleared, the
\* mutex dropped and the stream polled with a fresh StreamWaker
ScanTake ==
    /\ pc = "scan"
    /\ AnyReady(readiness)
    /\ LET i == (index + 1) % StreamsLen
           t == ClearReady(readiness, i) IN
         /\ t.old
         /\ index' = i
         /\ count' = t.count
         /\ ready' = t.ready
         /\ lastRelay' = [lastRelay EXCEPT ![i] = parent]
         /\ relays' = IF FusePollsInner(i)
                       THEN relays \cup {[id |-> i, parent |-> parent]}
                       ELSE relays
    /\ guard' = "free"
    /\ pc' = "polling"
    /\ UNCHANGED <<streams, orig, fused, complete, parent, woken, output, mret, ends,
                   wakers, due>>

\* Poll::Ready(Some(item)): the stream is marked ready again, the item returned
StreamYields ==
    /\ pc = "polling"
    /\ guard = "free"
    /\ FusePollsInner(index)
    /\ streams[index] # <<>>
    /\ LET t == SetReady(readiness, index) IN
         /\ count' = t.count
         /\ ready' = t.ready
    /\ streams' = [streams EXCEPT ![index] = Tail(@)]
    /\ output' = Append(output, Head(streams[index]))
    /\ mret' = [kind |-> "item"]
    /\ pc' = "idle"
    /\ woken' = {}
    /\ due' = due \ {index}
    /\ UNCHANGED <<orig, fused, guard, complete, index, parent, relays, lastRelay,
                   ends, wakers>>

\* A faulty Ready(None) arm: complete is compared with >= instead of ==.
StreamEndsAtLeast ==
    /\ pc = "polling"
    /\ guard = "free"
    /\ ~FusePollsInner(index) \/ streams[index] = <<>>
    /\ fused' = [fused EXCEPT ![index] = TRUE]
    /\ complete' = complete + 1
    /\ IF complete + 1 >= StreamsLen
       THEN /\ pc' = "idle"
            /\ mret' = [kind |-> "end"]
            /\ ends' = ends + 1
            /\ woken' = {}
            /\ guard' = guard
       ELSE /\ pc' = "scan"
            /\ guard' = "loop"
            /\ UNCHANGED <<mret, ends, woken>>
    /\ due' = due \ {index}
    /\ UNCHANGED <<streams, orig, count, ready, index, parent, relays, lastRelay,
                   output, wakers>>

\* Poll::Ready(None), from the stream or from its Fuse: complete += 1, and
\* Ready(None) is returned when complete == streams.len()
StreamEnds ==
    /\ pc = "polling"
    /\ guard = "free"
    /\ ~FusePollsInner(index) \/ streams[index] = <<>>
    /\ fused' = [fused EXCEPT ![index] = TRUE]
    /\ complete' = complete + 1
    /\ IF complete + 1 = StreamsLen
       THEN /\ pc' = "idle"
            /\ mret' = [kind |-> "end"]
            /\ ends' = ends + 1
            /\ woken' = {}
            /\ guard' = guard
       ELSE /\ pc' = "scan"
            /\ guard' = "loop"
            /\ UNCHANGED <<mret, ends, woken>>
    /\ due' = due \ {index}
    /\ UNCHANGED <<streams, orig, count, ready, index, parent, relays, lastRelay,
                   output, wakers>>

\* Poll::Pending from the stream: lock again and keep scanning
StreamPending ==
    /\ pc = "polling"
    /\ guard = "free"
    /\ FusePollsInner(index)
    /\ pc' = "scan"
    /\ guard' = "loop"
    /\ due' = due \ {index}
    /\ UNCHANGED <<streams, orig, fused, count, ready, complete, index, parent,
                   relays, lastRelay, woken, output, mret, ends, wakers>>

\* A faulty StreamWaker::wake: the flag is set and the parent never woken.
WakeNoForward(r) ==
    /\ r \in relays
    /\ guard = "free"
    /\ fused[r.id] => complete < MaxComplete
    /\ LET t == SetReady(readiness, r.id) IN
         /\ count' = t.count
         /\ ready' = t.ready
    /\ due' = IF /\ pc = "idle" /\ mret.kind = "pending"
                 /\ ~fused[r.id] /\ r.parent = lastRelay[r.id]
              THEN due \cup {r.id} ELSE due
    /\ UNCHANGED <<streams, orig, fused, guard, complete, index, parent, pc, relays,
                   lastRelay, woken, output, mret, ends, wakers>>

\* A faulty StreamWaker::wake: the parent is woken whatever the flag was.
WakeAlwaysForwards(r) ==
    /\ r \in relays
    /\ guard = "free"
    /\ fused[r.id] => complete < MaxComplete
    /\ LET t == SetReady(readiness, r.id) IN
         /\ count' = t.count
         /\ ready' = t.ready
    /\ woken' = woken \cup {r.parent}
    /\ due' = IF /\ pc = "idle" /\ mret.kind = "pending"
                 /\ ~fused[r.id] /\ r.parent = lastRelay[r.id]
              THEN due \cup {r.id} ELSE due
    /\ UNCHANGED <<streams, orig, fused, guard, complete, index, parent, pc, relays,
                   lastRelay, output, mret, ends, wakers>>

\* StreamWaker::wake of the relay r, by the stream's runtime
Wake(r) ==
    /\ r \in relays
    /\ guard = "free"
    /\ fused[r.id] => complete < MaxComplete
    /\ LET t == SetReady(readiness, r.id) IN
         /\ count' = t.count
         /\ ready' = t.ready
         /\ woken' = IF ~t.old THEN woken \cup {r.parent} ELSE woken
    /\ due' = IF /\ pc = "idle" /\ mret.kind = "pending"
                 /\ ~fused[r.id] /\ r.parent = lastRelay[r.id]
              THEN due \cup {r.id} ELSE due
    /\ UNCHANGED <<streams, orig, fused, guard, complete, index, parent, pc, relays,
                   lastRelay, output, mret, ends, wakers>>

\* ========================================================================
\* Specifications
\* ========================================================================

\* a Merge of no streams, left alone while the RaceOk future runs
MergeIdle ==
    /\ streams = <<>> /\ orig = <<>> /\ fused = <<>> /\ ready = <<>>
    /\ lastRelay = <<>>
    /\ count = 0 /\ guard = "free" /\ complete = 0 /\ index = 0 /\ parent = "w1"
    /\ pc = "idle" /\ relays = {} /\ woken = {} /\ output = <<>>
    /\ mret = NoMret /\ ends = 0 /\ wakers = {"w1"} /\ due = {}

\* a RaceOk future of one pending future, left alone while the Merge runs
RaceIdle ==
    /\ LEN = 1
    /\ fate = [i \in Idx(1) |-> "never"]
    /\ opState = [i \in Idx(1) |-> "live"]
    /\ completed = 0 /\ done = FALSE /\ indexer = 0
    /\ errors = [i \in Idx(1) |-> Uninit]
    /\ ret = NoRet /\ returned = <<>> /\ driven = <<>> /\ redriven = {}

RaceNext ==
    \/ Poll /\ UNCHANGED mergeVars
    \/ PollAfterDone /\ UNCHANGED mergeVars

\* the RaceOk future alone
RaceStart == RaceInit /\ MergeIdle

RaceSpec == RaceStart /\ [][RaceNext]_vars

MergeNext ==
    \/ \E p \in wakers : PollNextBegin(p) /\ UNCHANGED raceVars
    \/ ReturnPending /\ UNCHANGED raceVars
    \/ ScanSkip /\ UNCHANGED raceVars
    \/ ScanTake /\ UNCHANGED raceVars
    \/ StreamYields /\ UNCHANGED raceVars
    \/ StreamEnds /\ UNCHANGED raceVars
    \/ StreamPending /\ UNCHANGED raceVars
    \/ \E r \in relays : Wake(r) /\ UNCHANGED raceVars

\* the Merge stream alone, polled with one waker throughout
MergeStart == MergeInit /\ wakers = {"w1"} /\ RaceIdle

\* the Merge stream alone, polled by a runtime that may change the waker
MergeStartTwoWakers == MergeInit /\ wakers = Parents /\ RaceIdle

MergeSpec == MergeStart /\ [][MergeNext]_vars

MergeSpecTwoWakers == MergeStartTwoWakers /\ [][MergeNext]_vars

\* the steps poll_next takes by itself once it was called, the answer of the
\* polled stream included
PollNextStep ==
    \/ ReturnPending /\ UNCHANGED raceVars
    \/ ScanSkip /\ UNCHANGED raceVars
    \/ ScanTake /\ UNCHANGED raceVars
    \/ StreamYields /\ UNCHANGED raceVars
    \/ StreamEnds /\ UNCHANGED raceVars
    \/ StreamPending /\ UNCHANGED raceVars

\* the Merge stream on a thread that keeps running: a poll_next call in
\* progress takes its next step; calls and wakes happen when they happen
MergeFairSpec == MergeStart /\ [][MergeNext]_vars /\ WF_vars(PollNextStep)

\* ========================================================================
\* Properties of RaceOk
\* ========================================================================

AllFail == \A i \in Idx(LEN) : fate[i] = "err"

\* C1: poll returns at most one terminal result over the life of the future,
\* at most one future ever reports a success, and a result Ok(v) carries the
\* value of a future that succeeded when it was polled.
C1_RaceDecisive ==
    /\ Len(returned) <= 1
    /\ Cardinality({i \in Idx(LEN) : opState[i] = "succeeded"}) <= 1
    /\ \A k \in DOMAIN returned :
         returned[k].kind = "ok" =>
           \E i \in Idx(LEN) : /\ fate[i] = "ok"
                               /\ opState[i] = "succeeded"
                               /\ returned[k].val = OkVal(i)

\* C1 happens: three futures, two of which can succeed, one failed, and Ok returned
C1_Witness ==
    /\ LEN = 3
    /\ Cardinality({i \in Idx(LEN) : fate[i] = "ok"}) = 2
    /\ \E i \in Idx(LEN) : opState[i] = "failed"
    /\ ret.kind = "ok"

\* C2: when every future fails, no poll of a future that has not returned
\* panics, and the Err that is returned holds, at each position i, the error
\* of future i.
C2_AllFailAggregate ==
    AllFail =>
      /\ (ret.kind = "panic" => done)
      /\ (ret.kind = "err" => \A i \in Idx(LEN) : ret.errs[i] = ErrVal(i))

\* C3: no future is polled again after it has returned Ready.
C3_NeverRedriven == redriven = {}

\* C4: Err is returned only when every future has concluded with a failure
\* and every slot of the aggregate was written.
C4_ErrOnlyWhenAllFailed ==
    ret.kind = "err" =>
      /\ \A i \in Idx(LEN) : opState[i] = "failed"
      /\ \A i \in Idx(LEN) : ret.errs[i] # Uninit

\* C5: once a terminal result has been returned, every further poll panics,
\* polls no future and changes nothing of the future's state.
C5_PollAfterDonePanics ==
    [][returned # <<>> =>
         /\ ret'.kind = "panic"
         /\ driven' = <<>>
         /\ UNCHANGED <<completed, done, indexer, errors, opState, returned,
                        redriven>>]_vars

\* C5 happens: a poll after the terminal result has panicked
C5_Witness ==
    /\ returned # <<>>
    /\ ret.kind = "panic"
    /\ done

\* C6: a poll in which a future that had not completed reports a success
\* returns Ok of that future's value in the same call, whatever the others do.
C6_SuccessReturnsInSameCall ==
    [][\A i \in Idx(LEN) :
         (opState[i] = "live" /\ opState'[i] = "succeeded") =>
           (ret'.kind = "ok" /\ ret'.val = OkVal(i))]_vars

\* C6 happens: (pending, Ok) resolved to the value of the second future
C6_Witness ==
    /\ LEN = 2
    /\ fate[0] = "never"
    /\ fate[1] = "ok"
    /\ 0 \in {driven[k] : k \in DOMAIN driven}
    /\ ret.kind = "ok"
    /\ ret.val = OkVal(1)

\* C18 as stated: the poll in which a future reports a success stops at that
\* future, polls no future after it in the iteration order, sets done and
\* leaves every error slot as it was before the call.
C18_SuccessLeavesSlots ==
    [][(~done /\ ret'.kind = "ok") =>
         LET n == Len(driven') IN
         /\ n >= 1
         /\ ret'.val = OkVal(driven'[n])
         /\ driven' = SubSeq(IndexerIter(indexer, LEN), 1, n)
         /\ done'
         /\ errors' = errors]_vars

\* C18 as amended: the poll in which a future reports a success stops at that
\* future, polls no future after it in the iteration order and sets done; the
\* slot of that future and of every future after it in the order is left as
\* it was, and a slot that changed holds the error of a future polled before
\* it in the same call.
C18_SuccessStopsScan ==
    [][(~done /\ ret'.kind = "ok") =>
         LET n == Len(driven') IN
         /\ n >= 1
         /\ ret'.val = OkVal(driven'[n])
         /\ driven' = SubSeq(IndexerIter(indexer, LEN), 1, n)
         /\ done'
         /\ \A j \in Idx(LEN) :
              errors'[j] # errors[j] =>
                /\ \E k \in 1 .. n - 1 : driven'[k] = j
                /\ errors'[j] = ErrVal(j)]_vars

\* C18 happens: of three futures, the first poll drove one that failed, then
\* one that succeeded, and never reached the third
C18_Witness ==
    /\ LEN = 3
    /\ indexer = 1
    /\ completed = 2
    /\ ret.kind = "ok"
    /\ Len(driven) = 2
    /\ errors[driven[1]] = ErrVal(driven[1])
    /\ errors[driven[2]] = Uninit
    /\ done

\* ========================================================================
\* Properties of Merge
\* ========================================================================

\* the stream an item comes from
SourceOf(v) == (v \div 10) - 1
\* the items of s that come from stream i, in order
FromSource(s, i) == SelectSeq(s, LAMBDA v : SourceOf(v) = i)
\* the bag of the elements of s
SeqBag(s) ==
    [v \in {s[k] : k \in DOMAIN s} |-> Cardinality({k \in DOMAIN s : s[k] = v})]
\* the items of streams i, i + 1, ... one after the other
RECURSIVE ItemsFrom(_)
ItemsFrom(i) == IF i >= StreamsLen THEN <<>> ELSE orig[i] \o ItemsFrom(i + 1)
IsPrefix(s, t) == Len(s) <= Len(t) /\ SubSeq(t, 1, Len(s)) = s

AllFused == \A i \in Idx(StreamsLen) : fused[i]

\* C7: the items returned before Ready(None) are the bag union of the
\* streams' items, and each stream's items come out in that stream's order.
C7_MergeOutputExact ==
    /\ \A i \in Idx(StreamsLen) : IsPrefix(FromSource(output, i), orig[i])
    /\ ends >= 1 =>
         /\ SeqBag(output) = SeqBag(ItemsFrom(0))
         /\ \A i \in Idx(StreamsLen) : FromSource(output, i) = orig[i]

\* C8: Ready(None) is returned only when every stream has returned None, and
\* once every stream (there is one at least) has returned None, Ready(None)
\* has been returned.
C8_EndsIffAllEnded ==
    /\ ends >= 1 => AllFused
    /\ (StreamsLen > 0 /\ AllFused) => ends >= 1

C11_WakeForwardsIffFlagSet ==
    /\ [][\A r \in relays :
            Wake(r) =>
              IF ~ready[r.id]
              THEN /\ ready' = [ready EXCEPT ![r.id] = TRUE]
                   /\ count' = count + 1
                   /\ r.parent \in woken'
              ELSE UNCHANGED <<count, ready, woken>>]_vars
    /\ [][~(woken' \subseteq woken) =>
            \E i \in Idx(StreamsLen) : ~ready[i] /\ ready'[i]]_vars

\* C11 happens: after Pending, a StreamWaker has set its stream's flag and
\* woken its parent
C11_Witness ==
    /\ pc = "idle"
    /\ mret.kind = "pending"
    /\ \E r \in relays : ready[r.id] /\ r.parent \in woken /\ count = 1

\* C12: the readiness mutex is held by poll_next only while it scans, never
\* while a stream is polled or after poll_next returned; while it is held the
\* scan has a step to take; and while a stream is polled every StreamWaker of
\* a stream that has not ended can take the mutex and run.
C12_GuardFreeWhilePolling ==
    /\ guard = "loop" <=> pc = "scan"
    /\ guard = "loop" => ENABLED (ReturnPending \/ ScanSkip \/ ScanTake)
    /\ pc = "polling" =>
         \A r \in relays : ~fused[r.id] => ENABLED Wake(r)

\* C12 happens: while a stream is being polled, its own StreamWaker has been
\* invoked and has set the flag that the scan had cleared
C12_Witness ==
    /\ pc = "polling"
    /\ guard = "free"
    /\ ~fused[index]
    /\ ready[index]
    /\ [id |-> index, parent |-> parent] \in relays
    /\ parent \in woken

\* C13: in every state, readiness.count is the number of streams whose flag
\* in readiness.ready is true.
C13_CountIsNumberOfFlags ==
    count = Cardinality({i \in Idx(StreamsLen) : ready[i]})

\* C13 happens: of two streams, both flags were cleared by the scan, a
\* StreamWaker has set one of them again and the other stream has yielded
C13_Witness ==
    /\ StreamsLen = 2
    /\ count = 2
    /\ output # <<>>
    /\ \E r \in relays : ready[r.id] /\ r.parent \in woken

\* C14: in every state, this.complete is at most streams.len().
C14_CompleteAtMostLen ==
    complete <= StreamsLen

\* C15: once a stream has returned None, its flag in readiness.ready is never
\* set again and poll_next never polls it again.
C15_EndedStreamNeverReady ==
    /\ \A i \in Idx(StreamsLen) : fused[i] => ~ready[i]
    /\ ~(pc = "polling" /\ fused[index])

\* C16: poll_next returns Pending only from a state in which it holds the
\* readiness mutex and count is zero, so that no flag is set; and a flag is
\* cleared only by the step that goes on to poll that stream. Hence every
\* stream whose flag was set during a call is polled before the call can
\* return Pending.
C16_PendingOnlyWhenNoneReady ==
    /\ [][(pc # "idle" /\ pc' = "idle" /\ mret'.kind = "pending") =>
            /\ guard = "loop"
            /\ count = 0
            /\ \A i \in Idx(StreamsLen) : ~ready[i]]_vars
    /\ [][\A i \in Idx(StreamsLen) :
            (ready[i] /\ ~ready'[i]) => (pc' = "polling" /\ index' = i)]_vars

\* C16 happens: two streams, both polled and found pending, then Pending
\* returned with no flag set
C16_Witness ==
    /\ StreamsLen = 2
    /\ pc = "idle"
    /\ mret.kind = "pending"
    /\ count = 0
    /\ output = <<>>
    /\ \A i \in Idx(StreamsLen) : ~fused[i] /\ lastRelay[i] = parent

\* C17: a poll_next call on a Merge of no streams returns Ready(None), never
\* Pending.
C17_NoStreamsEnds ==
    (StreamsLen = 0 /\ pc = "idle" /\ mret.kind # "none") => mret.kind = "end"

\* C19: every poll_next call returns: a call in progress leads to a state in
\* which poll_next has returned an item, Ready(None) or Pending.
C19_CallReturns ==
    (pc # "idle") ~> (pc = "idle")

\* C20: after poll_next returned Pending, when the StreamWaker that a stream
\* which has not ended received at its last poll is invoked and finds the flag
\* clear, the waker passed to the most recent poll_next call is woken.
C20_LatestParentWoken ==
    [][\A r \in relays :
         (/\ pc = "idle" /\ mret.kind = "pending"
          /\ ~fused[r.id] /\ r.parent = lastRelay[r.id]
          /\ ~ready[r.id]
          /\ Wake(r)) => parent \in woken']_vars

====
